---- MODULE Spec2Model ----
(***************************************************************************)
(* catmapper: category_mapping(iterable, cats) of src/__init__.py.         *)
(*                                                                         *)
(* One call of the function is modelled statement by statement.  Python    *)
(* values are records [t, n, s]: a number, a string (n is its rank in the  *)
(* lexicographic order) or a list/tuple (s holds its items).  An exception *)
(* that leaves the function ends the call in pc = "raised".                *)
(***************************************************************************)
EXTENDS Integers, Sequences, FiniteSets

\* ------------------------------------------------------------------ bounds
MaxCats == 3
MaxElems == 2
Thresholds == {1, 2, 3}
Values == {0, 1, 2, 3, 4}

\* ----------------------------------------------------------- Python values
Num(n) == [t |-> "num", n |-> n, s |-> <<>>]
Str(n) == [t |-> "str", n |-> n, s |-> <<>>]
List(s) == [t |-> "list", n |-> 0, s |-> s]

Ok(v) == [err |-> "none", val |-> v]
Raise(e) == [err |-> e, val |-> <<>>]

Items(v) == v.s
Last(v) == v.s[Len(v.s)]
RowOf(cats, j) == List([r \in 1..Len(cats) |-> cats[r].s[j]])

SetMin(S) == CHOOSE x \in S : \A y \in S : x <= y
SetMax(S) == CHOOSE x \in S : \A y \in S : x >= y

\* a < b of Python: defined between two numbers and between two strings
Comparable(a, b) == a.t = b.t /\ a.t \in {"num", "str"}
Less(a, b) == a.n < b.n

\* len(x): TypeError for a number
HasLen(v) == v.t \in {"list", "str"}

\* [list(x) for x in zip(*cats)]: zip stops at the shortest row and raises
\* TypeError for an argument that is not iterable; zip() of nothing is empty
Transpose(cats) ==
  IF \E r \in 1..Len(cats) : cats[r].t = "num" THEN Raise("TypeError")
  ELSE IF Len(cats) = 0 THEN Ok(<<>>)
  ELSE LET m == SetMin({Len(cats[r].s) : r \in 1..Len(cats)})
       IN Ok([j \in 1..m |-> RowOf(cats, j)])

\* the stable order sorted() gives: position of row r among the rows
Rank(cats, r) ==
  Cardinality({q \in 1..Len(cats) :
                 \/ Less(Last(cats[q]), Last(cats[r]))
                 \/ (~Less(Last(cats[r]), Last(cats[q])) /\ q < r)}) + 1

\* as sorted(), but the rows stay in the order given
Unsorted(cats) ==
  IF \E r \in 1..Len(cats) : Len(cats[r].s) = 0 THEN Raise("IndexError")
  ELSE IF \E q, r \in 1..Len(cats) : ~Comparable(Last(cats[q]), Last(cats[r]))
       THEN Raise("TypeError")
  ELSE Ok(cats)

\* sorted(cats, key=lambda x: x[-1]): the keys are computed first (IndexError
\* for an empty row), then compared (TypeError for a string against a number)
Sorted(cats) ==
  IF \E r \in 1..Len(cats) : Len(cats[r].s) = 0 THEN Raise("IndexError")
  ELSE IF \E q, r \in 1..Len(cats) : ~Comparable(Last(cats[q]), Last(cats[r]))
       THEN Raise("TypeError")
  ELSE Ok([p \in 1..Len(cats) |->
             cats[CHOOSE r \in 1..Len(cats) : Rank(cats, r) = p]])

\* bisect(a, x) of the standard library (bisect_right): lo = 0, hi = len(a);
\* while lo < hi: mid = (lo + hi) // 2; if x < a[mid]: hi = mid else lo = mid + 1.
\* -1 stands for the TypeError of comparing a number with a string.
RECURSIVE BisectFrom(_, _, _, _)
BisectFrom(a, x, lo, hi) ==
  IF lo >= hi THEN lo
  ELSE LET mid == (lo + hi) \div 2
       IN IF ~Comparable(x, a[mid + 1]) THEN -1
          ELSE IF Less(x, a[mid + 1]) THEN BisectFrom(a, x, lo, mid)
          ELSE BisectFrom(a, x, mid + 1, hi)

\* bisect_left: the insertion point before any equal items
RECURSIVE BisectLeftFrom(_, _, _, _)
BisectLeftFrom(a, x, lo, hi) ==
  IF lo >= hi THEN lo
  ELSE LET mid == (lo + hi) \div 2
       IN IF ~Comparable(x, a[mid + 1]) THEN -1
          ELSE IF Less(a[mid + 1], x) THEN BisectLeftFrom(a, x, mid + 1, hi)
          ELSE BisectLeftFrom(a, x, lo, mid)

bisect_left(a, x) == BisectLeftFrom(a, x, 0, Len(a))

bisect(a, x) == BisectFrom(a, x, 0, Len(a))

\* --------------------------------------------- the statements of the function
\* as lines 63-66, but an empty table passes
Try1StepLenient(cats) ==
  IF Len(cats) = 0 THEN Ok(cats)
  ELSE IF ~HasLen(cats[1]) THEN Transpose(cats)
  ELSE Ok(cats)

\* lines 63-66: len(cats[0]) == 2 and isiter(...); the value is thrown away,
\* only a TypeError matters (an IndexError of cats[0] is not caught)
Try1Step(cats) ==
  IF Len(cats) = 0 THEN Raise("IndexError")
  ELSE IF ~HasLen(cats[1]) THEN Transpose(cats)
  ELSE Ok(cats)

\* lines 68-72: sort by the last item of each row; on a TypeError transpose
\* and sort again
SortStep(cats) ==
  LET first == Sorted(cats)
  IN IF first.err = "TypeError"
     THEN LET tr == Transpose(cats)
          IN IF tr.err # "none" THEN tr ELSE Sorted(tr.val)
     ELSE first

\* line 74: cat0, cat1 = [list(x) for x in zip(*cats)]
UnzipStep(cats) ==
  LET tr == Transpose(cats)
  IN IF tr.err # "none" THEN tr
     ELSE IF Len(tr.val) # 2 THEN Raise("ValueError")
     ELSE Ok(<<Items(tr.val[1]), Items(tr.val[2])>>)

\* line 76, one element: (i, cat0[bisect(cat1, i[1])])
LookupIndex(c1, i) == bisect(c1, Num(i[2]))

LookupOne(c0, c1, i) ==
  LET idx == LookupIndex(c1, i)
  IN IF idx < 0 THEN Raise("TypeError")
     ELSE IF idx >= Len(c0) THEN Raise("IndexError")
     ELSE Ok(<<i, c0[idx + 1]>>)

\* line 76, the whole comprehension: the first failing element ends it
MapAll(c0, c1, it) ==
  LET bad == {j \in 1..Len(it) : LookupOne(c0, c1, it[j]).err # "none"}
  IN IF bad # {} THEN Raise(LookupOne(c0, c1, it[SetMin(bad)]).err)
     ELSE Ok([j \in 1..Len(it) |-> LookupOne(c0, c1, it[j]).val])

\* the call as a function of its arguments
category_mapping(it, cats) ==
  LET a == Try1Step(cats)
  IN IF a.err # "none" THEN a
     ELSE LET b == SortStep(a.val)
          IN IF b.err # "none" THEN b
             ELSE LET c == UnzipStep(b.val)
                  IN IF c.err # "none" THEN c
                     ELSE MapAll(c.val[1], c.val[2], it)

\* sorted() returns a new list: the list it was handed keeps its contents
SortInPlaceArgument(arg, res) == IF res.err = "none" THEN res.val ELSE arg

SortedArgument(arg, res) == arg

\* ------------------------------------------------------- the caller's inputs
\* a category is <<label, threshold>>; the k-th label is a string or a number
LabelChoices(k) == {Str(k), Num(10 * k)}

CategoryLists ==
  UNION {{c \in [1..n -> (UNION {LabelChoices(k) : k \in 1..n}) \X Thresholds] :
            \A k \in 1..n : c[k][1] \in LabelChoices(k)} : n \in 0..MaxCats}

LabelsOf(c) == [k \in 1..Len(c) |-> c[k][1]]
ThresholdsOf(c) == [k \in 1..Len(c) |-> Num(c[k][2])]

\* Shape A: [labels, thresholds]
ShapeA(c) == <<List(LabelsOf(c)), List(ThresholdsOf(c))>>
\* Shape B: [(label, threshold), ...]
ShapeB(c) == [k \in 1..Len(c) |-> List(<<c[k][1], Num(c[k][2])>>)]

Front(s) == SubSeq(s, 1, Len(s) - 1)

Shapes == {"A", "B", "A_short_thresholds", "A_short_labels", "B_triples", "flat"}

\* the table the caller passes for categories c in shape sh
Encode(c, sh) ==
  CASE sh = "A" -> ShapeA(c)
    [] sh = "B" -> ShapeB(c)
    [] sh = "A_short_thresholds" -> <<List(LabelsOf(c)), List(Front(ThresholdsOf(c)))>>
    [] sh = "A_short_labels" -> <<List(Front(LabelsOf(c))), List(ThresholdsOf(c))>>
    [] sh = "B_triples" -> [k \in 1..Len(c) |-> List(<<c[k][1], Num(c[k][2]), Num(0)>>)]
    [] sh = "flat" -> ThresholdsOf(c)

Elements == {<<"x", v>> : v \in Values}
Iterables == UNION {[1..m -> Elements] : m \in 0..MaxElems}

\* ------------------------------------------------------------------- state
VARIABLES
  categories,  \* the categories the caller means
  shape,       \* the shape the caller wrote them in
  table,       \* the caller's list object passed as cats
  iterable,    \* the caller's iterable
  cats,        \* the local name cats
  aliased,     \* cats still names the caller's object
  cat0, cat1,  \* line 74
  k,           \* how many elements the comprehension of line 76 has consumed
  out,         \* the list the comprehension of line 76 is building
  pc,          \* "try1", "sort", "unzip", "lookup", "returned", "raised"
  err,         \* the exception that left the function
  result       \* the returned list

vars == <<categories, shape, table, iterable, cats, aliased, cat0, cat1, k, out,
          pc, err, result>>

Init ==
  /\ categories \in CategoryLists
  /\ shape \in Shapes
  /\ shape \in {"A", "B"} \/ Len(categories) >= 1
  /\ table = Encode(categories, shape)
  /\ iterable \in Iterables
  /\ cats = table
  /\ aliased = TRUE
  /\ cat0 = <<>>
  /\ cat1 = <<>>
  /\ k = 0
  /\ out = <<>>
  /\ pc = "try1"
  /\ err = "none"
  /\ result = <<>>

Throw(e) ==
  /\ pc' = "raised"
  /\ err' = e

\* lines 63-66
Try1 ==
  /\ pc = "try1"
  /\ LET r == Try1Step(cats)
     IN IF r.err # "none"
        THEN /\ Throw(r.err)
             /\ UNCHANGED <<cats, aliased>>
        ELSE /\ cats' = r.val
             /\ aliased' = (aliased /\ (Len(cats) = 0 \/ HasLen(cats[1])))
             /\ pc' = "sort"
             /\ err' = err
  /\ UNCHANGED <<categories, shape, table, iterable, cat0, cat1, k, out, result>>

\* lines 68-72
Sort ==
  /\ pc = "sort"
  /\ LET r == SortStep(cats)
     IN IF r.err # "none"
        THEN /\ Throw(r.err)
             /\ UNCHANGED <<cats, aliased>>
        ELSE /\ cats' = r.val
             /\ aliased' = FALSE
             /\ pc' = "unzip"
             /\ err' = err
  /\ table' = IF aliased THEN SortedArgument(table, Sorted(cats)) ELSE table
  /\ UNCHANGED <<categories, shape, iterable, cat0, cat1, k, out, result>>

\* line 74
Unzip ==
  /\ pc = "unzip"
  /\ LET r == UnzipStep(cats)
     IN IF r.err # "none"
        THEN /\ Throw(r.err)
             /\ UNCHANGED <<cat0, cat1>>
        ELSE /\ cat0' = r.val[1]
             /\ cat1' = r.val[2]
             /\ pc' = "lookup"
             /\ err' = err
  /\ UNCHANGED <<categories, shape, table, iterable, cats, aliased, k, out, result>>

\* line 76: the next element of the comprehension
LookupSkipping ==
  /\ pc = "lookup"
  /\ k < Len(iterable)
  /\ LET r == LookupOne(cat0, cat1, iterable[k + 1])
     IN out' = IF r.err # "none" THEN out ELSE Append(out, r.val)
  /\ k' = k + 1
  /\ UNCHANGED <<categories, shape, table, iterable, cats, aliased, cat0, cat1,
                 pc, err, result>>

Lookup ==
  /\ pc = "lookup"
  /\ k < Len(iterable)
  /\ LET r == LookupOne(cat0, cat1, iterable[k + 1])
     IN IF r.err # "none"
        THEN /\ Throw(r.err)
             /\ UNCHANGED <<k, out>>
        ELSE /\ out' = Append(out, r.val)
             /\ k' = k + 1
             /\ pc' = pc
             /\ err' = err
  /\ UNCHANGED <<categories, shape, table, iterable, cats, aliased, cat0, cat1, result>>

\* line 76: return
Return ==
  /\ pc = "lookup"
  /\ k = Len(iterable)
  /\ result' = out
  /\ pc' = "returned"
  /\ UNCHANGED <<categories, shape, table, iterable, cats, aliased, cat0, cat1, k, out, err>>

Next == Try1 \/ Sort \/ Unzip \/ Lookup \/ Return

Spec == Init /\ [][Next]_vars

\* the stepwise call ends as the function of its arguments says
StepsAgree ==
  /\ pc = "returned" => category_mapping(iterable, table) = Ok(result)
  /\ pc = "raised" => category_mapping(iterable, table).err = err

\* ------------------------------------------------------------ the properties
NCats == Len(categories)
ThresholdSet == {categories[c][2] : c \in 1..NCats}
ValueOf(j) == iterable[j][2]
AllStrings == \A c \in 1..NCats : categories[c][1].t = "str"
DistinctThresholds == \A c, d \in 1..NCats : c # d => categories[c][2] # categories[d][2]
\* the labels the table pairs with threshold t
LabelsAt(t) == {categories[c][1] : c \in {d \in 1..NCats : categories[d][2] = t}}
LabelOf(j) == out[j][2]
Permutations(n) == {p \in [1..n -> 1..n] : \A a, b \in 1..n : a # b => p[a] # p[b]}
Permuted(c, p) == [j \in 1..Len(c) |-> c[p[j]]]
\* how the call ended: the returned list or the exception
Outcome == IF pc = "returned" THEN Ok(result) ELSE Raise(err)
Ended == pc \in {"returned", "raised"}
OtherShape == IF shape = "A" THEN "B" ELSE "A"
\* the table is one of the two accepted shapes and has a category
ValidTable == shape \in {"A", "B"} /\ NCats >= 1
\* a table the dispatch of lines 63-72 reads as the caller means it
PairsOrStringLabels == ValidTable /\ (shape = "B" \/ AllStrings)

AllStrictlyInside ==
  \A j \in 1..Len(iterable) :
    ValueOf(j) < SetMax(ThresholdSet) /\ ValueOf(j) \notin ThresholdSet

C3_ShapeInvariance ==
  (Ended /\ shape \in {"A", "B"}) =>
    category_mapping(iterable, Encode(categories, OtherShape)) = Outcome

C5_LengthAndOrder ==
  pc = "returned" =>
    /\ Len(result) = Len(iterable)
    /\ \A j \in 1..Len(result) : result[j][1] = iterable[j]

\* C5 witness: a returned call on two different elements
C5_Witness ==
  /\ pc = "returned"
  /\ Len(iterable) = 2
  /\ iterable[1] # iterable[2]

\* C6 as claimed: if an element is above every threshold of the table the call
\* does not return, and every computed index lies in 0..n.
C6_OutOfRangeRaises ==
  shape \in {"A", "B"} =>
    /\ (\E j \in 1..Len(iterable) : \A t \in ThresholdSet : ValueOf(j) > t)
         => pc # "returned"
    /\ pc = "lookup" =>
         \A j \in 1..Len(iterable) : LookupIndex(cat1, iterable[j]) \in 0..NCats

\* C7 as claimed: a table that is neither two equal-length rows nor a sequence of
\* pairs never makes the call return.
C7_MalformedRaises == shape \notin {"A", "B"} => pc # "returned"

\* C8: with an empty table the call raises before line 74, for every iterable.
C8_EmptyTableRaises ==
  NCats = 0 => pc \in {"try1", "sort", "raised"} /\ (pc = "sort" => shape = "A")

\* C8 witness: the empty table and the empty iterable, raised
C8_Witness == NCats = 0 /\ pc = "raised" /\ iterable = <<>> /\ shape = "B"

\* C9: no step of the call changes the caller's table or the input elements.
C9_ArgumentsUntouched == [][table' = table /\ iterable' = iterable]_vars

\* C9 witness: the call returned after sorting gave cats another order than the
\* caller's table has
C9_Witness ==
  /\ pc = "returned"
  /\ shape = "B"
  /\ cats # table
  /\ table = Encode(categories, shape)

\* C10 as claimed: before the lookup, for either accepted shape, cat0 and cat1 have
\* one entry per category, cat1 is ascending, and the pairs (cat0[j], cat1[j]) are
\* the table's (label, threshold) pairs.
C10_CanonicalForm ==
  (pc = "lookup" /\ shape \in {"A", "B"}) =>
    /\ Len(cat0) = NCats
    /\ Len(cat1) = NCats
    /\ \A j \in 1..Len(cat1) : cat1[j].t = "num"
    /\ \A i, j \in 1..Len(cat1) : i < j => cat1[i].n <= cat1[j].n
    /\ \E p \in Permutations(NCats) :
         \A j \in 1..NCats :
           cat0[j] = categories[p[j]][1] /\ cat1[j] = Num(categories[p[j]][2])
====
